---- MODULE Spec2Model ----
(***************************************************************************)
(* pmon: an interval (Pomodoro) timer.  The model follows src/pmon.c: the  *)
(* PmonConf structure, the countdown loop of run_phase with its pause      *)
(* handling, the phase rotation of get_next_phase, the accounting of       *)
(* update_tracked_time and the exit summary of print_final_stats.  The     *)
(* asynchronous parts are the SIGUSR1 handler (pause_handler), the         *)
(* SIGINT/SIGTERM handler (on_exit_handler) and the wall clock read by     *)
(* time(NULL), which counts whole seconds.                                 *)
(***************************************************************************)
EXTENDS Integers, Naturals, FiniteSets, Sequences, TLC

VARIABLES
    phase,              \* conf.phase
    cycle_count,        \* conf.cycle_count
    work_secs,          \* conf.work_secs
    break_secs,         \* conf.break_secs
    current_phase_secs, \* conf.current_phase_secs
    cycles,             \* conf.cycles      (const after parse_cmd_args)
    work_time,          \* conf.work_time   (const, seconds)
    lbreak_time,        \* conf.lbreak_time (const, seconds)
    sbreak_time,        \* conf.sbreak_time (const, seconds)
    paused,             \* static volatile sig_atomic_t paused
    now,                \* the value time(NULL) returns, relative to process start
    pc,                 \* position of the main thread of control
    phase_length,       \* run_phase local
    end_time,           \* run_phase local
    pause_start,        \* run_phase local
    left,               \* run_phase local (loop body)
    ret,                \* value returned by get_next_phase, not yet assigned
    final_work,         \* work_secs local of print_final_stats (printed)
    final_break,        \* break_secs local of print_final_stats (printed)
    log_file,           \* conf.log_file: "NULL", "open" or "closed"
    log_text,           \* what the log file holds: "empty" or "line"
    cursor,             \* the terminal cursor: "shown" or "hidden"
    exit_steps,         \* what print_final_stats and exit have done, in order
    args,               \* the option values given on the command line
    obs                 \* observations of the run (history, not program state)

conf == <<phase, cycle_count, work_secs, break_secs, current_phase_secs>>
config == <<cycles, work_time, lbreak_time, sbreak_time>>
locals == <<phase_length, end_time, pause_start, left, ret>>
finals == <<final_work, final_break>>
io == <<log_file, log_text, cursor, exit_steps>>
vars == <<conf, config, paused, now, pc, locals, finals, io, args, obs>>

\* ---------------------------------------------------------------- bounds
MaxCycles == 2      \* largest -c value explored
MaxNow == 13        \* the clock is observed for this many seconds
MaxToggles == 2     \* SIGUSR1 deliveries explored
MaxJitter == 1      \* times the clock advances while the process is not in sleep(1)
MaxJump == 2        \* seconds it advances by between line 95 and line 96

\* ------------------------------------------------------------- constants
PMON_WORK == "Work"
PMON_L_BREAK == "LongBreak"
PMON_S_BREAK == "ShortBreak"
PmonPhase == {PMON_WORK, PMON_L_BREAK, PMON_S_BREAK}

DEFAULT_CYCLES == 4
DEFAULT_WORK_MINS == 25
DEFAULT_SHORT_BREAK_MINS == 5
DEFAULT_LONG_BREAK_MINS == 30
SECONDS_IN_MINUTE == 60

\* conf.log_file after parse_cmd_args: NULL without -o, else the file opened
\* (and so truncated) by fopen(path, "w")
LogFiles == {"NULL", "open"}

\* Phase lengths explored, in seconds.  parse_cmd_args stores minutes * 60 in
\* an unsigned int, so every multiple of 4 is a length a run can have
\* (-w 787410671 gives work_time = 4, -l 501079518 gives lbreak_time = 8).
WorkTimes == {4}
ShortBreakTimes == {4}
LongBreakTimes == {8}

\* the option values of the runs explored: -c n -w 787410671 -l 501079518
\* -s 787410671
RunArgs == {[c |-> n, w |-> 787410671, l |-> 501079518, s |-> 787410671] :
               n \in 1..MaxCycles}

\* the option values explored for parse_cmd_args alone, as atoi returns them;
\* 0 is also what an option that is not given leaves
ArgValues == {0, 1, 25, -1, 1073741824, 787410671}

\* An unsigned int is held as its 32 bits read as an int (two's complement):
\* 4294967295 is held as -1.  It is 0 exactly when the held value is 0, and
\* the conversion to int of get_phase_length (line 64) and of line 91 leaves
\* the held value as it is.

\* The counters are unsigned int and the locals of print_final_stats int.  A
\* total grows by one phase length per phase, so it stays below 2^31 for the
\* first 68 years of a run; the arithmetic below is that of the integers.

\* ------------------------------------------------------- pure functions
\* x * k in unsigned int arithmetic (modulo 2^32), computed on 16-bit halves
mul_unsigned(x, k) ==
    LET lo == (x % 65536) * k
        hi == (((x \div 65536) * k) + (lo \div 65536)) % 65536
    IN  ((IF hi >= 32768 THEN hi - 65536 ELSE hi) * 65536) + (lo % 65536)

\* parse_cmd_args line 185
parsed_cycles(c) == IF c # 0 THEN c ELSE DEFAULT_CYCLES

\* parse_cmd_args lines 186-188
parsed_secs(mins, default) ==
    mul_unsigned(IF mins # 0 THEN mins ELSE default, SECONDS_IN_MINUTE)

get_phase_length(ph) ==
    IF ph = PMON_WORK THEN work_time
    ELSE IF ph = PMON_L_BREAK THEN lbreak_time
    ELSE sbreak_time

\* update_tracked_time: the new value of conf.work_secs
tracked_work_any_phase(ph, w) == w + work_time

tracked_work(ph, w) ==
    IF ph = PMON_WORK THEN w + work_time ELSE w

\* update_tracked_time: the new value of conf.break_secs
tracked_break(ph, b) ==
    IF ph = PMON_WORK THEN b
    ELSE b + (IF ph = PMON_L_BREAK THEN lbreak_time ELSE sbreak_time)

\* get_next_phase: the new value of conf.cycle_count
next_cycle_count_reset_on_entry(ph, cc) ==
    IF ph = PMON_WORK
    THEN (IF cc + 1 >= cycles THEN 0 ELSE cc + 1)
    ELSE cc

next_cycle_count_reset_any_break(ph, cc) ==
    IF ph = PMON_WORK THEN (cc + 1) ELSE 0

next_cycle_count(ph, cc) ==
    IF ph = PMON_WORK THEN cc + 1
    ELSE IF ph = PMON_L_BREAK THEN 0
    ELSE cc

\* get_next_phase: the value returned; cc is cycle_count after the increment
next_phase_early(ph, cc) ==
    IF ph = PMON_WORK
    THEN (IF cc + 1 >= cycles THEN PMON_L_BREAK ELSE PMON_S_BREAK)
    ELSE PMON_WORK

next_phase_strict(ph, cc) ==
    IF ph = PMON_WORK
    THEN (IF cc > cycles THEN PMON_L_BREAK ELSE PMON_S_BREAK)
    ELSE PMON_WORK

next_phase_break_chain(ph, cc) ==
    IF ph = PMON_WORK
    THEN (IF cc >= cycles THEN PMON_L_BREAK ELSE PMON_S_BREAK)
    ELSE IF ph = PMON_S_BREAK /\ cc + 1 >= cycles THEN PMON_L_BREAK
    ELSE PMON_WORK

next_phase(ph, cc) ==
    IF ph = PMON_WORK
    THEN (IF cc >= cycles THEN PMON_L_BREAK ELSE PMON_S_BREAK)
    ELSE PMON_WORK

\* run_phase line 96: int left = end_time - time(NULL)
time_left(e, t) == e - t

\* run_phase line 97: conf->current_phase_secs = phase_length - left
elapsed_secs_inclusive(len, l) == len - l + 1

elapsed_secs(len, l) == len - l

\* run_phase line 105: end_time += time(NULL) - pause_start
shifted_end_none(e, t, ps) == e

shifted_end_twice(e, t, ps) == e + 2 * (t - ps)

shifted_end(e, t, ps) == e + (t - ps)

\* pause_handler line 148: paused = !paused
toggled_set(p) == 1

toggled(p) == IF p = 0 THEN 1 ELSE 0

\* log_time line 49: const char *state = paused ? "(PAUSED) " : ""
log_time_state(p) == IF p # 0 THEN "(PAUSED) " ELSE ""

\* log_time lines 51-59: the log file after the call (fseek to 0, fprintf)
log_time_text(f, t) == IF f = "open" THEN "line" ELSE t

\* log_time lines 55-59: the cursor after the call (hidden on a terminal)
log_time_cursor(f, c) == IF f = "open" THEN c ELSE "hidden"

\* clear_log_file lines 41-45: the log file after freopen(path, "w", file)
clear_log_file(f, t) == IF f = "open" THEN "empty" ELSE t

\* print_final_stats lines 115-128, then exit: what is done, in order
print_final_stats_close_first(status, f) ==
    IF status # 2
    THEN (IF f = "open" THEN <<"close", "truncate">> ELSE <<>>)
         \o <<"summary", "cursor">>
    ELSE <<>>

print_final_stats(status, f) ==
    IF status # 2
    THEN <<"summary">>
         \o (IF f = "open" THEN <<"truncate", "close">> ELSE <<>>)
         \o <<"cursor">>
    ELSE <<>>

\* print_final_stats lines 117-118
final_work_secs_completed_only(ph, w, cur) == w

final_work_secs(ph, w, cur) ==
    w + (IF ph = PMON_WORK THEN cur ELSE 0)

final_break_secs_long_only(ph, b, cur) ==
    b + (IF ph = PMON_L_BREAK THEN cur ELSE 0)

final_break_secs(ph, b, cur) ==
    b + (IF ph # PMON_WORK THEN cur ELSE 0)

\* ------------------------------------------------------------ the state
\* What an observer of the run records; the program reads none of it.
\*   kWork        Work phases left since the start or the last LongBreak
\*   nWork, nShort, nLong   phases whose countdown loop has exited
\*   startTime    the clock read by run_phase line 92
\*   shiftTotal   sum of the deadline shifts of this run_phase
\*   flagSecs     seconds of this run_phase that passed with paused set
\*   nPauses      intervals with paused set that overlap this run_phase
\*   jitter       the clock advanced outside sleep(1) during this run_phase
\*   tickElapsed  clock at the last tick minus startTime minus shiftTotal
\*   shiftKept    every deadline shift so far left as much time as there
\*                was when pause_start was read
\*   prev         the phase that ran before the present one
\*   exitConf     the RunState fields as they were when exit(0) was called
\*   tickNotes    notifications (log_time calls) since line 95 was last run
\*   tickTag      the state text of the line-98 notification since then,
\*                kept until line 101 finds the flag set
\*   pauseTag     the state text of the line-103 notification since then
\*   ticked       line 97 has run in this run_phase
\*   leftKept     so far every line 96 gave a time left that is at most the
\*                one of the tick before it in the same run_phase (the phase
\*                length when there is none), and every line 97 gave a
\*                current_phase_secs that is at least the one before it
\*   run          SIGUSR1 deliveries since the flag was last tested by
\*                line 101 or line 104
\*   runFrom      the flag at that test
\*   detectConf   the RunState fields when line 101 last found the flag set
\*   exitPaused   the flag when exit(0) was called
\*   exitNotes    tickNotes when exit(0) was called
\*   toggles      SIGUSR1 deliveries so far
\*   jitters      seconds that began outside sleep(1) so far
\*   exitAt       where the thread of control was when exit(0) was called
Obs0 == [kWork |-> 0, nWork |-> 0, nShort |-> 0, nLong |-> 0,
         startTime |-> 0, shiftTotal |-> 0, flagSecs |-> 0, nPauses |-> 0,
         jitter |-> FALSE, tickElapsed |-> 0, shiftKept |-> TRUE,
         prev |-> "none", pauseTag |-> "none", tickNotes |-> 0,
         tickTag |-> "none", ticked |-> FALSE, leftKept |-> TRUE,
         run |-> 0, runFrom |-> 0, detectConf |-> <<>>, exitPaused |-> 0, exitNotes |-> 0,
         exitConf |-> <<>>, toggles |-> 0, jitters |-> 0, exitAt |-> "none"]

LoopPcs == {"loop", "left", "log", "sleep", "chk",
            "pstart", "plog", "pwait", "psleep", "shift"}

\* main lines 193-198: the result of parse_cmd_args, handlers installed;
\* files holds the values of conf.log_file that are explored
InitWith(files) ==
    /\ phase = PMON_WORK
    /\ cycle_count = 0
    /\ work_secs = 0
    /\ break_secs = 0
    /\ current_phase_secs = 0
    /\ args \in RunArgs
    /\ cycles = parsed_cycles(args.c)
    /\ work_time \in WorkTimes
    /\ work_time = parsed_secs(args.w, DEFAULT_WORK_MINS)
    /\ lbreak_time \in LongBreakTimes
    /\ lbreak_time = parsed_secs(args.l, DEFAULT_LONG_BREAK_MINS)
    /\ sbreak_time \in ShortBreakTimes
    /\ sbreak_time = parsed_secs(args.s, DEFAULT_SHORT_BREAK_MINS)
    /\ paused = 0
    /\ now = 0
    /\ pc = "start"
    /\ phase_length = 0
    /\ end_time = 0
    /\ pause_start = 0
    /\ left = 0
    /\ ret = PMON_WORK
    /\ final_work = 0
    /\ final_break = 0
    /\ log_file \in files
    /\ log_text = "empty"
    /\ cursor = "shown"
    /\ exit_steps = <<>>
    /\ obs = Obs0

\* main line 193, before parse_cmd_args has run: the configuration is not
\* built yet, the option values are any of those explored
InitParse ==
    /\ phase = PMON_WORK
    /\ cycle_count = 0
    /\ work_secs = 0
    /\ break_secs = 0
    /\ current_phase_secs = 0
    /\ args \in [c : ArgValues, w : ArgValues, l : ArgValues, s : ArgValues]
    /\ cycles = 0
    /\ work_time = 0
    /\ lbreak_time = 0
    /\ sbreak_time = 0
    /\ paused = 0
    /\ now = 0
    /\ pc = "parse"
    /\ phase_length = 0
    /\ end_time = 0
    /\ pause_start = 0
    /\ left = 0
    /\ ret = PMON_WORK
    /\ final_work = 0
    /\ final_break = 0
    /\ log_file = "NULL"
    /\ log_text = "empty"
    /\ cursor = "shown"
    /\ exit_steps = <<>>
    /\ obs = Obs0

\* parse_cmd_args lines 181-189 with the option values of lines 162-165
parse_cmd_args ==
    /\ pc = "parse"
    /\ cycles' = parsed_cycles(args.c)
    /\ work_time' = parsed_secs(args.w, DEFAULT_WORK_MINS)
    /\ lbreak_time' = parsed_secs(args.l, DEFAULT_LONG_BREAK_MINS)
    /\ sbreak_time' = parsed_secs(args.s, DEFAULT_SHORT_BREAK_MINS)
    /\ pc' = "start"
    /\ UNCHANGED <<conf, paused, now, locals, finals, io, args, obs>>

\* started without -o: progress goes to the terminal
Init == InitWith({"NULL"})

\* started with or without -o
InitLog == InitWith(LogFiles)

\* -------------------------------------------------------------- run_phase
\* lines 91-93
run_phase_enter ==
    /\ pc = "start"
    /\ phase_length' = get_phase_length(phase)
    /\ end_time' = now + phase_length'
    /\ pause_start' = 0
    /\ pc' = "loop"
    /\ obs' = [obs EXCEPT !.startTime = now, !.shiftTotal = 0, !.flagSecs = 0,
                          !.nPauses = paused, !.jitter = FALSE,
                          !.tickElapsed = 0, !.ticked = FALSE]
    /\ UNCHANGED <<conf, config, paused, now, left, ret, finals, io, args>>

\* line 95: while (time(NULL) < end_time)
loop_test ==
    /\ pc = "loop"
    /\ IF now < end_time
       THEN /\ pc' = "left"
            /\ obs' = [obs EXCEPT !.tickNotes = 0, !.tickTag = "none",
                                  !.pauseTag = "none"]
       ELSE /\ pc' = "update"
            /\ obs' = [obs EXCEPT
                  !.tickNotes = 0, !.tickTag = "none", !.pauseTag = "none",
                  !.nWork = @ + (IF phase = PMON_WORK THEN 1 ELSE 0),
                  !.nShort = @ + (IF phase = PMON_S_BREAK THEN 1 ELSE 0),
                  !.nLong = @ + (IF phase = PMON_L_BREAK THEN 1 ELSE 0)]
    /\ UNCHANGED <<conf, config, paused, now, locals, finals, io, args>>

\* lines 96-97
compute_left ==
    /\ pc = "left"
    /\ left' = time_left(end_time, now)
    /\ current_phase_secs' = elapsed_secs(phase_length, left')
    /\ pc' = "log"
    /\ obs' = [obs EXCEPT !.tickElapsed = now - obs.startTime - obs.shiftTotal,
                          !.ticked = TRUE,
                          !.leftKept =
                              /\ @
                              /\ left' <= (IF obs.ticked THEN left
                                           ELSE phase_length)
                              /\ current_phase_secs' >= current_phase_secs]
    /\ UNCHANGED <<phase, cycle_count, work_secs, break_secs, config, paused,
                   now, phase_length, end_time, pause_start, ret, finals, io, args>>

\* line 98: log_time(conf, left / 60, left % 60, phase_length)
log_tick ==
    /\ pc = "log"
    /\ log_text' = log_time_text(log_file, log_text)
    /\ cursor' = log_time_cursor(log_file, cursor)
    /\ pc' = "sleep"
    /\ obs' = [obs EXCEPT !.tickTag = log_time_state(paused),
                          !.tickNotes = @ + 1]
    /\ UNCHANGED <<conf, config, paused, now, locals, finals, log_file,
                   exit_steps, args>>

\* line 99: sleep(1) running its full second
sleep_tick ==
    /\ pc = "sleep"
    /\ now < MaxNow
    /\ now' = now + 1
    /\ pc' = "chk"
    /\ obs' = [obs EXCEPT !.flagSecs = @ + paused]
    /\ UNCHANGED <<conf, config, paused, locals, finals, io, args>>

\* line 101: if (paused)
pause_check ==
    /\ pc = "chk"
    /\ pc' = (IF paused # 0 THEN "pstart" ELSE "loop")
    /\ obs' = [obs EXCEPT !.run = 0, !.runFrom = paused,
                          !.tickTag = IF paused # 0 THEN "none" ELSE @,
                          !.detectConf = IF paused # 0 THEN conf ELSE @]
    /\ UNCHANGED <<conf, config, paused, now, locals, finals, io, args>>

\* line 102: pause_start = time(NULL)
pause_begin ==
    /\ pc = "pstart"
    /\ pause_start' = now
    /\ pc' = "plog"
    /\ UNCHANGED <<conf, config, paused, now, phase_length, end_time, left,
                   ret, finals, io, args, obs>>

\* line 103: log_time again
log_paused ==
    /\ pc = "plog"
    /\ log_text' = log_time_text(log_file, log_text)
    /\ cursor' = log_time_cursor(log_file, cursor)
    /\ pc' = "pwait"
    /\ obs' = [obs EXCEPT !.pauseTag = log_time_state(paused),
                          !.tickNotes = @ + 1]
    /\ UNCHANGED <<conf, config, paused, now, locals, finals, log_file,
                   exit_steps, args>>

\* line 104: while (paused)
pause_poll_stuck ==
    /\ pc = "pwait"
    /\ pc' = "psleep"
    /\ obs' = [obs EXCEPT !.run = 0, !.runFrom = paused]
    /\ UNCHANGED <<conf, config, paused, now, locals, finals, io, args>>

\* line 104: the condition of while (paused); paused is volatile, so it is
\* read again at every turn
pause_poll ==
    /\ pc = "pwait"
    /\ pc' = (IF paused # 0 THEN "psleep" ELSE "shift")
    /\ obs' = [obs EXCEPT !.run = 0, !.runFrom = paused]
    /\ UNCHANGED <<conf, config, paused, now, locals, finals, io, args>>

\* line 104: sleep(1) running its full second
pause_sleep_counting ==
    /\ pc = "psleep"
    /\ now < MaxNow
    /\ now' = now + 1
    /\ current_phase_secs' = current_phase_secs + 1
    /\ pc' = "pwait"
    /\ obs' = [obs EXCEPT !.flagSecs = @ + paused]
    /\ UNCHANGED <<phase, cycle_count, work_secs, break_secs, config, paused,
                   locals, finals, io, args>>

\* line 104: sleep(1) in the body of while (paused)
pause_sleep ==
    /\ pc = "psleep"
    /\ now < MaxNow
    /\ now' = now + 1
    /\ pc' = "pwait"
    /\ obs' = [obs EXCEPT !.flagSecs = @ + paused]
    /\ UNCHANGED <<conf, config, paused, locals, finals, io, args>>

\* lines 105-106: end_time += time(NULL) - pause_start; clear_log_file(conf)
pause_end ==
    /\ pc = "shift"
    /\ end_time' = shifted_end(end_time, now, pause_start)
    /\ log_text' = clear_log_file(log_file, log_text)
    /\ pc' = "loop"
    /\ obs' = [obs EXCEPT !.shiftTotal = @ + (now - pause_start),
                          !.shiftKept = @ /\ (end_time' - now
                                                 = end_time - pause_start),
                          !.detectConf = <<>>]
    /\ UNCHANGED <<conf, config, paused, now, phase_length, pause_start, left,
                   ret, finals, log_file, cursor, exit_steps, args>>

\* line 110: update_tracked_time(conf)
update_tracked_time ==
    /\ pc = "update"
    /\ work_secs' = tracked_work(phase, work_secs)
    /\ break_secs' = tracked_break(phase, break_secs)
    /\ pc' = "reset"
    /\ UNCHANGED <<phase, cycle_count, current_phase_secs, config, paused, now,
                   locals, finals, io, args, obs>>

\* line 111: conf->current_phase_secs = 0
reset_current ==
    /\ pc = "reset"
    /\ current_phase_secs' = 0
    /\ pc' = "next"
    /\ UNCHANGED <<phase, cycle_count, work_secs, break_secs, config, paused,
                   now, locals, finals, io, args, obs>>

\* ------------------------------------------------------------------ main
\* line 202, right-hand side: get_next_phase(&conf)
get_next_phase ==
    /\ pc = "next"
    /\ cycle_count' = next_cycle_count(phase, cycle_count)
    /\ ret' = next_phase(phase, cycle_count')
    /\ pc' = "assign"
    /\ UNCHANGED <<phase, work_secs, break_secs, current_phase_secs, config,
                   paused, now, phase_length, end_time, pause_start, left,
                   finals, io, args, obs>>

\* lines 202-203: conf.phase = <returned value>; clear_log_file(&conf)
assign_phase ==
    /\ pc = "assign"
    /\ phase' = ret
    /\ log_text' = clear_log_file(log_file, log_text)
    /\ pc' = "start"
    /\ obs' = [obs EXCEPT !.kWork = IF phase = PMON_WORK THEN @ + 1
                                    ELSE IF phase = PMON_L_BREAK THEN 0
                                    ELSE @,
                          !.prev = phase]
    /\ UNCHANGED <<cycle_count, work_secs, break_secs, current_phase_secs,
                   config, paused, now, locals, finals, log_file, cursor,
                   exit_steps, args>>

\* ----------------------------------------------------------- environment
\* pause_handler (line 148), SIGUSR1 delivered outside a sleep
pause_handler ==
    /\ pc # "exited"
    /\ obs.toggles < MaxToggles
    /\ paused' = toggled(paused)
    /\ obs' = [obs EXCEPT !.toggles = @ + 1, !.run = @ + 1,
                          !.nPauses = @ + (IF paused = 0 THEN 1 ELSE 0)]
    /\ UNCHANGED <<conf, config, now, pc, locals, finals, io, args>>

\* pause_handler run by a SIGUSR1 that interrupts sleep(1): the sleep returns
\* early, before (d = 0) or after (d = 1) the clock reaches the next second;
\* f says whether that second passed with the flag set
pause_handler_in_sleep ==
    /\ pc \in {"sleep", "psleep"}
    /\ obs.toggles < MaxToggles
    /\ paused' = toggled(paused)
    /\ pc' = (IF pc = "sleep" THEN "chk" ELSE "pwait")
    /\ \E d \in {0, 1} : \E f \in {0, 1} :
          /\ d = 1 => now < MaxNow
          /\ d = 0 => f = 0
          /\ now' = now + d
          /\ obs' = [obs EXCEPT !.toggles = @ + 1, !.run = @ + 1,
                                !.nPauses = @ + (IF paused = 0 THEN 1 ELSE 0),
                                !.flagSecs = @ + f]
    /\ UNCHANGED <<conf, config, locals, finals, io, args>>

\* the clock advances while the process is not in sleep(1): a second begins
\* between two statements, or the process is descheduled or stopped.  Only
\* time(NULL) observes the clock, so the advance is taken where a call of it
\* comes next (lines 92, 95, 96, 102, 105); between the two calls of lines 95
\* and 96 every advance is explored
clock_advance ==
    /\ pc \in {"start", "loop", "left", "pstart", "shift"}
    /\ obs.jitters < MaxJitter
    /\ \E d \in 1..(IF pc = "left" THEN MaxJump ELSE 1) :
          /\ now + d <= MaxNow
          /\ now' = now + d
          /\ obs' = [obs EXCEPT !.jitter = TRUE, !.jitters = @ + 1,
                                !.flagSecs = @ + d * paused]
    /\ UNCHANGED <<conf, config, paused, pc, locals, finals, io, args>>

\* on_exit_handler (line 152) calls exit(0), which runs print_final_stats
\* (lines 114-128) with status 0
on_exit_handler ==
    /\ pc # "exited"
    /\ final_work' = final_work_secs(phase, work_secs, current_phase_secs)
    /\ final_break' = final_break_secs(phase, break_secs, current_phase_secs)
    /\ exit_steps' = Append(print_final_stats(0, log_file), "exit")
    /\ log_text' = clear_log_file(log_file, log_text)
    /\ log_file' = (IF log_file = "open" THEN "closed" ELSE log_file)
    /\ cursor' = "shown"
    /\ pc' = "exited"
    /\ obs' = [obs EXCEPT !.exitAt = pc, !.exitConf = conf,
                          !.exitPaused = paused, !.exitNotes = obs.tickNotes]
    /\ UNCHANGED <<conf, config, paused, now, locals, args>>

Next ==
    \/ run_phase_enter
    \/ loop_test
    \/ compute_left
    \/ log_tick
    \/ sleep_tick
    \/ pause_check
    \/ pause_begin
    \/ log_paused
    \/ pause_poll
    \/ pause_sleep
    \/ pause_end
    \/ update_tracked_time
    \/ reset_current
    \/ get_next_phase
    \/ assign_phase
    \/ pause_handler
    \/ pause_handler_in_sleep
    \/ clock_advance
    \/ on_exit_handler

Spec == Init /\ [][Next]_vars

\* the same program with the clock advancing only inside sleep(1)
NextSteady ==
    \/ run_phase_enter
    \/ loop_test
    \/ compute_left
    \/ log_tick
    \/ sleep_tick
    \/ pause_check
    \/ pause_begin
    \/ log_paused
    \/ pause_poll
    \/ pause_sleep
    \/ pause_end
    \/ update_tracked_time
    \/ reset_current
    \/ get_next_phase
    \/ assign_phase
    \/ pause_handler
    \/ pause_handler_in_sleep
    \/ on_exit_handler

\* progress written to the terminal or to a log file
SpecLog == InitLog /\ [][NextSteady]_vars

\* the steps of the main thread: the loop of main with run_phase inlined
ProgramStep ==
    \/ run_phase_enter
    \/ loop_test
    \/ compute_left
    \/ log_tick
    \/ sleep_tick
    \/ pause_check
    \/ pause_begin
    \/ log_paused
    \/ pause_poll
    \/ pause_sleep
    \/ pause_end
    \/ update_tracked_time
    \/ reset_current
    \/ get_next_phase
    \/ assign_phase

\* a SIGUSR1 that clears the flag
ClearPause == paused = 1 /\ pause_handler

\* no SIGINT or SIGTERM arrives
NextLive ==
    \/ ProgramStep
    \/ pause_handler
    \/ pause_handler_in_sleep

\* the main thread keeps running, sleep(1) returns, and a pause that can be
\* cleared is cleared
SpecLive ==
    /\ Init
    /\ [][NextLive]_vars
    /\ WF_vars(ProgramStep)
    /\ WF_vars(ClearPause)

\* main lines 193 and 201: the configuration is built and the first phase
\* takes its length from it
NextParse ==
    \/ parse_cmd_args
    \/ run_phase_enter

SpecParse == InitParse /\ [][NextParse]_vars

\* ============================================================ properties
AllowedChanges == {<<PMON_WORK, PMON_S_BREAK>>, <<PMON_WORK, PMON_L_BREAK>>,
                   <<PMON_S_BREAK, PMON_WORK>>, <<PMON_L_BREAK, PMON_WORK>>}

\* where the thread of control is, or was when exit(0) was called
At == IF pc = "exited" THEN obs.exitAt ELSE pc

\* phases whose duration update_tracked_time has added to a total
WorkDone == obs.nWork - (IF At = "update" /\ phase = PMON_WORK THEN 1 ELSE 0)
ShortDone == obs.nShort - (IF At = "update" /\ phase = PMON_S_BREAK THEN 1 ELSE 0)
LongDone == obs.nLong - (IF At = "update" /\ phase = PMON_L_BREAK THEN 1 ELSE 0)

Abs(x) == IF x < 0 THEN -x ELSE x

C2_Transitions ==
    /\ (obs.prev = "none" /\ pc = "start") =>
          /\ phase = PMON_WORK
          /\ cycle_count = 0
          /\ work_secs = 0
          /\ break_secs = 0
          /\ current_phase_secs = 0
    /\ obs.prev = "none" => phase = PMON_WORK
    /\ obs.prev # "none" => <<obs.prev, phase>> \in AllowedChanges

C2_Witness ==
    /\ obs.prev = PMON_S_BREAK
    /\ phase = PMON_WORK
    /\ obs.nWork = 1
    /\ pc = "sleep"

\* C8: cycle_count is between 0 and cycles in every state, the state between
\* the increment of get_next_phase and the assignment of the phase included.
C8_CycleRange ==
    cycle_count \in 0..cycles

C8_Witness ==
    /\ pc = "assign"
    /\ phase = PMON_WORK
    /\ cycle_count = cycles
    /\ cycles = 1

\* C9 as stated: the step that makes the phase LongBreak sets cycle_count to
\* 0, and cycle_count becomes 0 in no other step.
C9_ResetOnEntry ==
    [][ /\ (phase' = PMON_L_BREAK /\ phase # PMON_L_BREAK) => cycle_count' = 0
        /\ (cycle_count' = 0 /\ cycle_count # 0) =>
              (phase' = PMON_L_BREAK /\ phase # PMON_L_BREAK)
      ]_vars

\* C9 amended: cycle_count is reset to 0 exactly when a long break ends: the
\* only step that changes it to 0 is get_next_phase called with the phase
\* LongBreak, whose result Work is assigned next; every such call resets it,
\* and the step that makes the phase LongBreak leaves cycle_count as it is.
C9_ResetOnLeave ==
    [][ /\ (cycle_count' = 0 /\ cycle_count # 0) =>
              /\ pc = "next"
              /\ phase = PMON_L_BREAK
              /\ ret' = PMON_WORK
        /\ (pc = "next" /\ pc' = "assign" /\ phase = PMON_L_BREAK) =>
              cycle_count' = 0
        /\ (phase' = PMON_L_BREAK /\ phase # PMON_L_BREAK) =>
              /\ cycle_count' = cycle_count
              /\ cycle_count' # 0
      ]_vars

C9_Witness ==
    /\ pc = "assign"
    /\ phase = PMON_L_BREAK
    /\ cycle_count = 0
    /\ ret = PMON_WORK

\* C10: the phase entered after the cycles-th Work phase is LongBreak with
\* cycle_count = cycles; cycle_count stays cycles until get_next_phase is
\* called at the end of the LongBreak, and the phase that follows a
\* LongBreak is Work, begun with cycle_count = 0.
C10_LongBreak ==
    /\ (phase = PMON_L_BREAK /\ At # "assign") => cycle_count = cycles
    /\ (phase = PMON_L_BREAK /\ At = "assign") =>
          (cycle_count = 0 /\ ret = PMON_WORK)
    /\ (obs.prev = PMON_WORK /\ obs.kWork = cycles) => phase = PMON_L_BREAK
    /\ (obs.prev = PMON_L_BREAK /\ pc = "start") =>
          (phase = PMON_WORK /\ cycle_count = 0)

C10_Witness ==
    /\ obs.prev = PMON_L_BREAK
    /\ phase = PMON_WORK
    /\ cycle_count = 0
    /\ pc = "loop"
    /\ obs.nLong = 1

\* C3: (a) with the clock advancing only in sleep(1), run_phase returns when
\* the clock is startTime + phase_length + the seconds spent blocked in
\* pauses, and for a single pause that sum differs by at most one second from
\* phase_length + the seconds the paused flag was set; (b) run_phase never
\* returns before phase_length seconds outside its pauses have passed,
\* however the clock advances; (c) the time left right after the deadline
\* shift equals the time left when pause_start was read.
C3_DeadlineShift ==
    /\ At = "next" => now - obs.startTime - obs.shiftTotal >= phase_length
    /\ (At = "next" /\ ~obs.jitter) =>
          now - obs.startTime = phase_length + obs.shiftTotal
    /\ (At = "next" /\ ~obs.jitter /\ obs.nPauses <= 1) =>
          Abs((now - obs.startTime) - (phase_length + obs.flagSecs)) <= 1
    /\ obs.shiftKept

C3_Witness ==
    /\ pc = "next"
    /\ ~obs.jitter
    /\ obs.nPauses = 1
    /\ obs.shiftTotal = 3
    /\ obs.flagSecs = 3
    /\ now - obs.startTime = phase_length + 3

\* C4 as stated: when the countdown loop exits, current_phase_secs equals
\* the configured length of the phase.
C4_ElapsedIsLength ==
    At = "update" => current_phase_secs = phase_length

\* C4 amended: when the countdown loop exits, current_phase_secs equals the
\* phase length minus the time left computed by the last tick, which is the
\* unpaused time elapsed at that tick; with the clock advancing only in
\* sleep(1) it is phase_length - 1, with or without a pause of any length.
C4_ElapsedAtLastTick ==
    At = "update" =>
       /\ current_phase_secs = phase_length - left
       /\ current_phase_secs = obs.tickElapsed
       /\ ~obs.jitter => current_phase_secs = phase_length - 1

C4_Witness ==
    /\ pc = "update"
    /\ ~obs.jitter
    /\ obs.shiftTotal = 3
    /\ current_phase_secs = phase_length - 1

\* C5: in every state work_secs is the number of completed Work phases times
\* work_time and break_secs is the number of completed short breaks times
\* sbreak_time plus the number of completed long breaks times lbreak_time
\* (a phase counts from the call of update_tracked_time that follows the exit
\* of its loop), so a total changes only by a completion, by that phase's
\* length, and never decreases; current_phase_secs is 0 from the end of
\* run_phase until the first tick of the next phase.
C5_Totals ==
    /\ work_secs = WorkDone * work_time
    /\ break_secs = ShortDone * sbreak_time + LongDone * lbreak_time
    /\ At \in {"next", "assign", "start"} => current_phase_secs = 0

C5_Witness ==
    /\ pc = "next"
    /\ phase = PMON_L_BREAK
    /\ obs.nWork = 1
    /\ obs.nLong = 1
    /\ obs.shiftTotal = 1
    /\ work_secs = work_time
    /\ break_secs = lbreak_time
    /\ current_phase_secs = 0

\* C6: when exit(0) is called inside the countdown loop of a Work phase, the
\* summary is (completed Work phases * work_time + e, break total), and
\* inside the loop of a break it is (work total, completed break time + e),
\* where e is the unpaused time of the phase elapsed at its last tick; with
\* the clock advancing only in sleep(1) and no pause in progress, e is the
\* unpaused time elapsed at the exit or one second less.
C6_PartialProgress ==
    (pc = "exited" /\ obs.exitAt \in LoopPcs) =>
       /\ final_work = obs.nWork * work_time
                       + (IF phase = PMON_WORK THEN obs.tickElapsed ELSE 0)
       /\ final_break = obs.nShort * sbreak_time + obs.nLong * lbreak_time
                       + (IF phase # PMON_WORK THEN obs.tickElapsed ELSE 0)
       /\ (~obs.jitter /\ obs.exitAt \in {"loop", "left", "log", "sleep", "chk"}) =>
             (now - obs.startTime - obs.shiftTotal) - obs.tickElapsed \in {0, 1}

C6_Witness ==
    /\ pc = "exited"
    /\ obs.exitAt = "sleep"
    /\ phase = PMON_WORK
    /\ obs.nWork = 1
    /\ obs.tickElapsed = 2
    /\ final_work = work_time + 2
    /\ final_break = sbreak_time

\* C7: the summary is work_secs plus current_phase_secs when the phase is
\* Work, and break_secs plus current_phase_secs when the phase is a short or
\* a long break; computing it leaves every RunState field as it was.
C7_Summary ==
    pc = "exited" =>
       /\ final_work = work_secs
                       + (IF phase = PMON_WORK THEN current_phase_secs ELSE 0)
       /\ final_break = break_secs
                       + (IF phase \in {PMON_S_BREAK, PMON_L_BREAK}
                          THEN current_phase_secs ELSE 0)
       /\ conf = obs.exitConf

C7_Witness ==
    /\ pc = "exited"
    /\ phase = PMON_S_BREAK
    /\ current_phase_secs = 3
    /\ final_work = work_time
    /\ final_break = 3

PausePcs == {"pstart", "plog", "pwait", "psleep", "shift"}

\* C11: when SIGINT or SIGTERM arrives, at whatever point, the summary is
\* computed from the RunState of that moment and printed, then the log file
\* (when there is one) is truncated and closed and the cursor is restored,
\* then the process exits; the RunState, the clock position of the loop and
\* the notifications stay as they were at the request, so the phase in
\* progress is not finished.
C11_ExitSequence ==
    pc = "exited" =>
       /\ final_work = obs.exitConf[3]
                       + (IF obs.exitConf[1] = PMON_WORK
                          THEN obs.exitConf[5] ELSE 0)
       /\ final_break = obs.exitConf[4]
                        + (IF obs.exitConf[1] # PMON_WORK
                           THEN obs.exitConf[5] ELSE 0)
       /\ exit_steps = (IF log_file = "closed"
                        THEN <<"summary", "truncate", "close", "cursor", "exit">>
                        ELSE <<"summary", "cursor", "exit">>)
       /\ log_file \in {"NULL", "closed"}
       /\ (log_file = "closed" => log_text = "empty")
       /\ cursor = "shown"
       /\ conf = obs.exitConf
       /\ obs.tickNotes = obs.exitNotes
       /\ paused = obs.exitPaused
       /\ ~ ENABLED NextSteady

C11_Witness ==
    /\ pc = "exited"
    /\ obs.exitAt = "psleep"
    /\ log_file = "closed"
    /\ phase = PMON_S_BREAK
    /\ current_phase_secs = 2
    /\ final_work = work_time
    /\ final_break = 2

\* C12: two SIGUSR1 deliveries with no test of the flag (line 101 or
\* line 104) between them leave the flag at the value it had before the
\* first of them, whether that value was 0 or 1; one delivery inverts it.
C12_TogglePair ==
    /\ paused \in {0, 1}
    /\ \A p \in {0, 1} : toggled(toggled(p)) = p
    /\ (obs.run = 1 => paused = 1 - obs.runFrom)
    /\ (obs.run = 2 => paused = obs.runFrom)

C12_Witness ==
    /\ obs.run = 2
    /\ obs.runFrom = 0
    /\ paused = 0
    /\ At = "sleep"

\* C13: current_phase_secs never exceeds the configured length of the phase
\* in progress, and the time left computed at line 96 is never negative,
\* however the clock advances between the time(NULL) of line 95 and the one
\* of line 96.
C13_ElapsedWithinLength ==
    /\ current_phase_secs <= get_phase_length(phase)
    /\ left >= 0

\* C14: the flag as line 101 finds it decides the whole tick: found set,
\* the tick records the pause start, emits a notification tagged paused,
\* waits for the flag to clear and shifts the deadline; found clear, it does
\* none of these and its notification is not tagged paused. A SIGUSR1 at
\* any other moment changes nothing before the next line 101.
C14_CheckDecides ==
    /\ (At \in {"pwait", "psleep", "shift"} =>
           obs.pauseTag = "(PAUSED) ")
    /\ (At = "loop" /\ obs.tickNotes = 1 => obs.tickTag = "")
    /\ (At \in {"sleep", "chk"} /\ obs.runFrom = 0 => obs.tickTag = "")

\* C15: a pause found by line 101 gives exactly one more notification,
\* tagged paused, and none after it until the flag clears; a tick outside
\* such a pause gives exactly one notification, not tagged paused.
C15_Notifications ==
    /\ (At \in {"pwait", "psleep", "shift"} =>
           obs.tickNotes = 2 /\ obs.pauseTag = "(PAUSED) ")
    /\ (At \in {"sleep", "chk"} =>
           obs.tickNotes = 1 /\ obs.tickTag = "")

\* C17: between the line 101 that finds the flag set and the end of that
\* pause, however many seconds pass, phase, cycle_count, work_secs, break_secs
\* and current_phase_secs stay as they were at line 101; a summary printed
\* by a termination during the pause is the one of that moment.
C17_FrozenInPause ==
    At \in PausePcs =>
       /\ conf = obs.detectConf
       /\ (pc = "exited" =>
              /\ final_work = obs.detectConf[3]
                              + (IF obs.detectConf[1] = PMON_WORK
                                 THEN obs.detectConf[5] ELSE 0)
              /\ final_break = obs.detectConf[4]
                               + (IF obs.detectConf[1] # PMON_WORK
                                  THEN obs.detectConf[5] ELSE 0))

C17_Witness ==
    /\ pc = "exited"
    /\ obs.exitAt = "psleep"
    /\ now - pause_start >= 3
    /\ phase = PMON_WORK
    /\ current_phase_secs = 1
    /\ final_work = 1
    /\ final_break = 0

\* C19: wherever SIGINT or SIGTERM arrives, the summary counts no second
\* twice: the two totals together are at most the configured lengths of the
\* phases whose loop has ended plus current_phase_secs of the phase still in
\* its loop, and the work total is at most work_time times the number of
\* Work phases started.
C19_NoDoubleCount ==
    pc = "exited" =>
       /\ final_work + final_break
             <= obs.nWork * work_time + obs.nShort * sbreak_time
                + obs.nLong * lbreak_time
                + (IF obs.exitAt \in LoopPcs THEN current_phase_secs ELSE 0)
       /\ final_work
             <= work_time * (obs.nWork + (IF obs.exitAt \in LoopPcs
                                            /\ phase = PMON_WORK
                                         THEN 1 ELSE 0))

\* C20: within one run_phase the time left computed by successive ticks never
\* increases and never exceeds the phase length, pauses and resumes
\* included (the line-103 notification repeats the time left of its tick);
\* current_phase_secs never decreases and is never negative before the
\* phase completes.
C20_Monotone ==
    /\ obs.leftKept
    /\ (obs.ticked /\ At \in LoopPcs => left <= phase_length)
    /\ current_phase_secs >= 0

C20_Witness ==
    /\ At = "log"
    /\ obs.shiftTotal = 2
    /\ obs.jitter
    /\ phase = PMON_L_BREAK
    /\ left = 5
    /\ current_phase_secs = 3

\* C18: whatever values -c, -w, -l and -s are given (0, negative, or so
\* large that the product with 60 wraps), the configuration built by
\* parse_cmd_args has cycles, work_time, lbreak_time and sbreak_time all
\* greater than 0, and the phase length run_phase takes from it, an int, is
\* greater than 0.
C18_PositiveConf ==
    pc # "parse" =>
       /\ cycles # 0
       /\ work_time # 0
       /\ lbreak_time # 0
       /\ sbreak_time # 0
       /\ (pc = "loop" => phase_length > 0)

\* the deadline of the phase at hand, known once run_phase has started it
Deadline == IF pc = "start" THEN now + get_phase_length(phase) ELSE end_time

====
